---- MODULE Spec2Model ----
(***************************************************************************)
(* The patch-integration pipeline of the GitHub app: a patch-result        *)
(* message arrives from the Pub/Sub subscription, and the handler either   *)
(* cuts a branch, rewrites the files and opens a pull request, or posts a  *)
(* comment on the issue.  The repository holds three evolutions of the     *)
(* handler:                                                                *)
(*   "subscriptions"  src/subscriptions.js          (patchedFiles based)   *)
(*   "evolution2"     src/unnamed/part_002:261-347  (unified diff, PR)     *)
(*   "evolution1"     src/unnamed/part_002:95-165   (unified diff, no PR)  *)
(* Beside it stand the build-result handler in its four versions           *)
(* (BuildVariants) and the handler of an opened issue                      *)
(* (src/webhook-handlers.js:39-62).                                        *)
(* One behaviour of the model is one message handled by one of them, and   *)
(* delivered again once the run has come to rest.  The JavaScript          *)
(* run-to-completion rule makes every synchronous segment of a handler one *)
(* action; the remote API's answers are the other actions.                 *)
(***************************************************************************)
EXTENDS Integers, Sequences, FiniteSets, TLC

\* ------------------------------------------------------------ bounds
\* Longest change set (patchedFiles entries / file sections of a diff).
MaxFiles == 2
\* Longest file content (in lines) a diff is made for.
MaxLines == 3
\* Longest error string of a message.
MaxStrLen == 2
\* Deliveries of the message that get as far as naming a branch.
MaxRuns == 2
MaxTitle == 3

\* ------------------------------------------------------------ text
\* Characters: "x" is an ordinary character, "_" one that Markdown reads.
Alphabet == {"x", "_"}

Str == UNION {[1..k -> Alphabet] : k \in 0..MaxStrLen}

\* The backquote is written "BQ".
MarkdownSpecial == {"_", "*", "BQ"}

\* text.replace over the class [_*BQ]: a backslash before every special character.
RECURSIVE escapeMarkdown(_)
escapeMarkdown(text) ==
    IF text = <<>> THEN <<>>
    ELSE (IF Head(text) \in MarkdownSpecial
            THEN <<"\\", Head(text)>>
            ELSE <<Head(text)>>) \o escapeMarkdown(Tail(text))

\* s occurs in t as a contiguous run of characters (String.prototype.includes).
Contains(t, s) ==
    \E i \in 0..(Len(t) - Len(s)) : SubSeq(t, i + 1, i + Len(s)) = s

\* ------------------------------------------------------------ unified diff
\* A diff text is a sequence of lines; a line is its leading marker and the rest.
\*   "---" / "+++"  file header, name = the file name after the marker
\*   "@@"           hunk header, oldStart/oldLines/newStart/newLines
\*   "+", "-", " "  hunk body line, text = the line without its marker
\*   "junk"         any other line
DiffLine(tag, name, os, ol, ns, nl, text) ==
    [tag |-> tag, name |-> name, oldStart |-> os, oldLines |-> ol,
     newStart |-> ns, newLines |-> nl, text |-> text]

OldHeader(name) == DiffLine("---", name, 0, 0, 0, 0, "")
NewHeader(name) == DiffLine("+++", name, 0, 0, 0, 0, "")
HunkHeader(os, ol, ns, nl) == DiffLine("@@", "", os, ol, ns, nl, "")
Body(op, text) == DiffLine(op, "", 0, 0, 0, 0, text)
Junk == DiffLine("junk", "", 0, 0, 0, 0, "x")

\* The characters of a diff text as the comment shows them.
RECURSIVE DiffChars(_)
DiffChars(lines) ==
    IF lines = <<>> THEN <<>>
    ELSE LET l == Head(lines)
             shown == CASE l.tag \in {"---", "+++"} -> <<l.tag, " ", l.name>>
                        [] l.tag = "@@" -> <<"@@">>
                        [] l.tag = "junk" -> <<l.text>>
                        [] OTHER -> <<l.tag, l.text>>
         IN shown \o (IF Len(lines) > 1 THEN <<"\n">> ELSE <<>>)
                  \o DiffChars(Tail(lines))

\* File names of the repository and of the diffs that name them.
Undefined == "undefined"
DevNull == "/dev/null"

\* String.prototype.slice(2) on the file names a diff can carry.
Slice2(name) ==
    CASE name = "a/main.py" -> "main.py"
      [] name = "b/main.py" -> "main.py"
      [] name = "a/util.py" -> "util.py"
      [] name = "b/util.py" -> "util.py"
      [] name = "b/test.py" -> "test.py"
      [] name = "b/moved.py" -> "moved.py"
      [] name = DevNull -> "ev/null"
      [] OTHER -> name

\* ---- parsePatch of the diff library, as the handlers call it (no strict option)
IsBodyLine(lines, j) ==
    LET l == lines[j]
    IN CASE l.tag \in {"+", "-", " "} -> TRUE
         \* a line starting with "---" is a removal, unless it heads the next file
         [] l.tag = "---" -> ~(j + 2 <= Len(lines) /\ lines[j + 1].tag = "+++"
                                /\ lines[j + 2].tag = "@@")
         [] l.tag = "+++" -> TRUE
         [] OTHER -> FALSE

HunkBodyLine(l) ==
    CASE l.tag = "---" -> [op |-> "-", text |-> "--hdr"]
      [] l.tag = "+++" -> [op |-> "+", text |-> "++hdr"]
      [] OTHER -> [op |-> l.tag, text |-> l.text]

\* The index after the last body line of the hunk whose body starts at j.
RECURSIVE HunkEnd(_, _)
HunkEnd(lines, j) ==
    IF j <= Len(lines) /\ IsBodyLine(lines, j) THEN HunkEnd(lines, j + 1) ELSE j

Count(body, ops) == Cardinality({k \in DOMAIN body : body[k].op \in ops})

\* parseHunk: the hunk whose header is line i, and the index after it.
parseHunk(lines, i) ==
    LET h == lines[i]
        e == HunkEnd(lines, i + 1)
        body == [k \in 1..(e - i - 1) |-> HunkBodyLine(lines[i + k])]
        adds == Count(body, {"+", " "})
        removes == Count(body, {"-", " "})
        ol == IF removes = 0 /\ h.oldLines = 1 THEN 0 ELSE h.oldLines
        nl == IF adds = 0 /\ h.newLines = 1 THEN 0 ELSE h.newLines
    IN [hunk |-> [oldStart |-> IF h.oldLines = 0 THEN h.oldStart + 1 ELSE h.oldStart,
                  oldLines |-> ol,
                  newStart |-> IF h.newLines = 0 THEN h.newStart + 1 ELSE h.newStart,
                  newLines |-> nl,
                  lines |-> body],
        next |-> e]

RECURSIVE SkipMeta(_, _)
SkipMeta(lines, i) ==
    IF i <= Len(lines) /\ lines[i].tag \notin {"---", "+++", "@@"}
    THEN SkipMeta(lines, i + 1) ELSE i

parseFileHeader(lines, st) ==
    IF st.i <= Len(lines) /\ lines[st.i].tag \in {"---", "+++"}
    THEN IF lines[st.i].tag = "---"
         THEN [st EXCEPT !.oldFileName = lines[st.i].name, !.i = @ + 1]
         ELSE [st EXCEPT !.newFileName = lines[st.i].name, !.i = @ + 1]
    ELSE st

RECURSIVE ParseHunks(_, _)
ParseHunks(lines, st) ==
    IF st.i > Len(lines) \/ lines[st.i].tag \in {"---", "+++"} THEN st
    ELSE IF lines[st.i].tag = "@@"
         THEN LET r == parseHunk(lines, st.i)
              IN ParseHunks(lines, [st EXCEPT !.hunks = Append(@, r.hunk), !.i = r.next])
         ELSE ParseHunks(lines, [st EXCEPT !.i = @ + 1])

\* parseIndex: one file section starting at line i.
parseIndex(lines, i) ==
    LET st0 == [oldFileName |-> Undefined, newFileName |-> Undefined,
                hunks |-> <<>>, i |-> SkipMeta(lines, i)]
    IN ParseHunks(lines, parseFileHeader(lines, parseFileHeader(lines, st0)))

RECURSIVE ParseFrom(_, _)
ParseFrom(lines, i) ==
    IF i > Len(lines) THEN <<>>
    ELSE LET st == parseIndex(lines, i)
         IN <<[oldFileName |-> st.oldFileName, newFileName |-> st.newFileName,
               hunks |-> st.hunks]>> \o ParseFrom(lines, st.i)

\* The empty text splits into one empty line, which still opens one section.
parsePatch(lines) ==
    IF lines = <<>>
    THEN <<[oldFileName |-> Undefined, newFileName |-> Undefined, hunks |-> <<>>]>>
    ELSE ParseFrom(lines, 1)

\* ---- applyPatch of the diff library (fuzzFactor 0, default compareLine)
\* hunkFits: the context and removed lines of the hunk are the lines from toPos on
\* (toPos counts from 0).
hunkFits(content, hunk, toPos) ==
    LET old == SelectSeq(hunk.lines, LAMBDA l : l.op \in {" ", "-"})
    IN \A k \in 1..Len(old) :
          toPos + k <= Len(content) /\ toPos + k >= 1 /\ content[toPos + k] = old[k].text

Abs(n) == IF n < 0 THEN -n ELSE n

\* The offset the distance iterator finds first: the fitting position nearest to
\* start, the later one of two equally near.  -1000 stands for "none".
NoFit == -1000
BestFit(content, hunk, start, minLine, maxLine) ==
    LET fits == {p \in minLine..maxLine : hunkFits(content, hunk, p)}
                  \cup (IF hunkFits(content, hunk, start) THEN {start} ELSE {})
    IN IF fits = {} THEN NoFit
       ELSE CHOOSE p \in fits :
              \A q \in fits : Abs(p - start) < Abs(q - start)
                              \/ (Abs(p - start) = Abs(q - start) /\ p >= q)

\* A splice that leaves the removed lines in.
NewLinesOf_KeepsRemoved(hunk) ==
    [k \in 1..Len(hunk.lines) |-> hunk.lines[k].text]

\* The lines a hunk puts in place of its old lines.
NewLinesOf(hunk) ==
    LET new == SelectSeq(hunk.lines, LAMBDA l : l.op \in {" ", "+"})
    IN [k \in 1..Len(new) |-> new[k].text]

OldCount(hunk) == Len(SelectSeq(hunk.lines, LAMBDA l : l.op \in {" ", "-"}))

\* The search of every hunk's place in the original lines, each from the end of
\* the previous one: the places (counted from 0), or <<NoFit>> if one has none.
RECURSIVE FindPlaces(_, _, _, _)
FindPlaces(lines, hunks, minLine, offset) ==
    IF hunks = <<>> THEN <<>>
    ELSE LET hunk == Head(hunks)
             start == offset + hunk.oldStart - 1
             pos == BestFit(lines, hunk, start, minLine, Len(lines) - hunk.oldLines)
         IN IF pos = NoFit THEN <<NoFit>>
            ELSE LET rest == FindPlaces(lines, Tail(hunks), pos + 1 + hunk.oldLines,
                                        offset + (pos - start))
                 IN IF rest # <<>> /\ rest[Len(rest)] = NoFit THEN <<NoFit>>
                    ELSE <<pos>> \o rest

Clamp(n, lo, hi) == IF n < lo THEN lo ELSE IF n > hi THEN hi ELSE n

\* The splices of the hunks, in order, on the lines as patched so far.
RECURSIVE Splice(_, _, _, _)
Splice(lines, hunks, places, diffOffset) ==
    IF hunks = <<>> THEN lines
    ELSE LET hunk == Head(hunks)
             toPos == Clamp(Head(places) + diffOffset, 0, Len(lines))
             after == Clamp(toPos + OldCount(hunk), 0, Len(lines))
             patched == SubSeq(lines, 1, toPos) \o NewLinesOf(hunk)
                          \o SubSeq(lines, after + 1, Len(lines))
         IN Splice(patched, Tail(hunks), Tail(places),
                   diffOffset + hunk.newLines - hunk.oldLines)

\* [ok, content]: ok = FALSE is the library's return value false.
applyPatch(originalContent, filePatch) ==
    LET places == FindPlaces(originalContent, filePatch.hunks, 0, 0)
    IN IF places # <<>> /\ places[Len(places)] = NoFit
       THEN [ok |-> FALSE, content |-> <<>>]
       ELSE [ok |-> TRUE,
             content |-> Splice(originalContent, filePatch.hunks, places, 0)]

\* ------------------------------------------------------------ data
\* The versions of the patch-result handler, and of the build-result handler:
\*   "buildResult"     onBobTheBuilderResult of subscriptions.js:64-83
\*   "buildResult2"    onBobTheBuilderResult of part_002:230-259
\*   "handleMessage0"  handleMessage of part_000:69-96
\*   "handleMessage1"  handleMessage of part_001:76-107
PatchVariants == {"subscriptions", "evolution2", "evolution1"}
BuildVariants == {"buildResult", "buildResult2", "handleMessage0", "handleMessage1"}
\*   "issueOpened"     onIssueOpened of webhook-handlers.js:39-62
Variants == PatchVariants \cup BuildVariants \cup {"issueOpened"}

baseBranchName == <<"main">>
NoBranch == <<>>
NoSha == <<>>
\* The head commit of the base branch, and the content-addressed sha of a blob.
HeadCommit == <<"commit", "head">>
BlobSha(content) == <<"blob", content>>
\* Buffer.from(text).toString('base64'), and the decoding on the other side.
Base64(content) == <<"base64", content>>
FromBase64(encoded) == encoded[2]

TaskInfo ==
    [repo_owner |-> "owner", repo_name |-> "repo", issue_number |-> 7,
     issue_title |-> <<"x">>, installation_id |-> 1]

\* The files of the base commit: one repository that holds both files, and one
\* where util.py is missing and main.py reads differently.
TreeBoth == [p \in {"main.py", "util.py"} |->
               IF p = "main.py" THEN <<"a", "b", "c">> ELSE <<"a", "b">>]
TreeOther == [p \in {"main.py"} |-> <<"c", "b", "a">>]
TreePool == {TreeBoth, TreeOther}

PatchedFile(src, tgt, content) ==
    [sourceFilePath |-> src, targetFilePath |-> tgt, targetFileContent |-> content]
PatchedFilePool ==
    {PatchedFile("main.py", "main.py", <<"a", "b", "d">>),
     PatchedFile("util.py", "util.py", <<"a">>),
     PatchedFile("main.py", "moved.py", <<"a", "b", "c">>)}

\* The sequences of up to n different elements of S.
SeqsUpTo(S, n) ==
    {s \in UNION {[1..k -> S] : k \in 0..n} :
        \A i, j \in DOMAIN s : i # j => s[i] # s[j]}

\* File sections of a unified diff.
SectionMain == <<OldHeader("a/main.py"), NewHeader("b/main.py"),
                 HunkHeader(3, 1, 3, 1), Body("-", "c"), Body("+", "d")>>
SectionUtil == <<OldHeader("a/util.py"), NewHeader("b/util.py"),
                 HunkHeader(1, 2, 1, 3), Body(" ", "a"), Body("+", "n"), Body(" ", "b")>>
SectionNew == <<OldHeader(DevNull), NewHeader("b/test.py"),
                HunkHeader(0, 0, 1, 1), Body("+", "p")>>
SectionStale == <<OldHeader("a/main.py"), NewHeader("b/main.py"),
                  HunkHeader(3, 1, 3, 1), Body("-", "z"), Body("+", "d")>>
\* A section whose hunk header is missing.
SectionBad == <<OldHeader("a/main.py"), NewHeader("b/main.py"),
                Body("-", "c"), Body("+", "d")>>
\* A section that renames main.py and changes its last line.
SectionRename == <<OldHeader("a/main.py"), NewHeader("b/moved.py"),
                   HunkHeader(3, 1, 3, 1), Body("-", "c"), Body("+", "e")>>
SectionPool == {SectionMain, SectionUtil, SectionNew, SectionStale, SectionBad}

RECURSIVE Flatten(_)
Flatten(ss) == IF ss = <<>> THEN <<>> ELSE Head(ss) \o Flatten(Tail(ss))

\* The diffs a result can carry: up to MaxFiles sections of the pool, and the
\* renaming section alone, before another file and after a section for the same
\* file.
DiffPool ==
    {Flatten(ss) : ss \in SeqsUpTo(SectionPool, MaxFiles)}
      \cup {SectionRename, SectionRename \o SectionUtil, SectionMain \o SectionRename}

\* The diff the first evolution is started with (part_002:18-46): one file, three
\* hunks that each add lines after a context line.
HardcodedDiff ==
    <<OldHeader("a/main.py"), NewHeader("b/main.py"),
      HunkHeader(1, 1, 1, 2), Body(" ", "a"), Body("+", "n"),
      HunkHeader(2, 1, 3, 2), Body(" ", "b"), Body("+", "n"),
      HunkHeader(3, 1, 5, 2), Body(" ", "c"), Body("+", "n")>>

Message(err, hasDiff, diffText, hasFiles, files) ==
    [taskInfo |-> TaskInfo, error |-> err,
     hasUnifiedDiff |-> hasDiff, unifiedDiff |-> diffText,
     hasPatchedFiles |-> hasFiles, patchedFiles |-> files]

\* A build result: issueInfo names the issue the build was asked for in; history is
\* the field formatBuildResultMessage walks through.
BuildResult(hasHistory) ==
    [taskInfo |-> TaskInfo, hasHistory |-> hasHistory, error |-> <<>>,
     hasUnifiedDiff |-> FALSE, unifiedDiff |-> <<>>,
     hasPatchedFiles |-> FALSE, patchedFiles |-> <<>>]

\* Issue titles: a title is a sequence of the pieces below, "Docker" and "File"
\* being the capitalised "docker" and "file".
TitlePieces == {"docker", "Docker", " ", "file", "File", "x"}
Titles == UNION {[1..k -> TitlePieces] : k \in 0..MaxTitle}

\* String.prototype.toLowerCase, written as a plain copy.
toLowerCase_Unchanged(title) == title

\* String.prototype.toLowerCase.
toLowerCase(title) ==
    [i \in DOMAIN title |->
       IF title[i] = "Docker" THEN "docker"
       ELSE IF title[i] = "File" THEN "file" ELSE title[i]]

\* The payload of an issues.opened event: the issue of TaskInfo with the title given.
IssueOpened(title) ==
    [taskInfo |-> [TaskInfo EXCEPT !.issue_title = title], hasHistory |-> FALSE,
     error |-> <<>>, hasUnifiedDiff |-> FALSE, unifiedDiff |-> <<>>,
     hasPatchedFiles |-> FALSE, patchedFiles |-> <<>>]

\* The messages each evolution is given.  unifiedDiff and patchedFiles are optional
\* fields of the result; the first evolution is only ever called with its own
\* hard-coded message (part_002:176-187).
MessagesFor(v) ==
    CASE v = "subscriptions" ->
           {Message(e, d[1], d[2], f[1], f[2]) :
              e \in Str,
              d \in {<<FALSE, <<>>>>, <<TRUE, <<>>>>, <<TRUE, SectionMain>>},
              f \in {<<FALSE, <<>>>>} \cup
                    {<<TRUE, fs>> : fs \in SeqsUpTo(PatchedFilePool, MaxFiles)}}
      [] v = "evolution2" ->
           {Message(e, d[1], d[2], FALSE, <<>>) :
              e \in {<<>>, <<"x">>},
              d \in {<<FALSE, <<>>>>} \cup {<<TRUE, t>> : t \in DiffPool}}
      [] v = "evolution1" ->
           {Message(<<>>, TRUE, HardcodedDiff, FALSE, <<>>)}
      [] v \in BuildVariants ->
           {BuildResult(h) : h \in BOOLEAN}
      [] v = "issueOpened" ->
           {IssueOpened(t) : t \in Titles}

\* ------------------------------------------------------------ state
VARIABLES
    variant,        \* which evolution of the handler runs
    msg,            \* the patch result of the message
    handler,        \* onPatchGenerationResult: "idle", "running", "returned", "threw"
    pipe,           \* the pull-request pipeline: "none", "getRef", "createRef",
                    \*   "files", "fulfilled", "rejected"
    acks,           \* number of message.ack() calls
    calls,          \* the API calls issued so far, in order, with their outcome
    changeSet,      \* the entries being applied: patchedFiles, or the parsed diff
    fileSt,         \* per change-set entry: "none", "getContent", "write", "ok",
                    \*   "failed", "skipped"
    errors,         \* errors logged or left as unhandled rejections
    remote,         \* the repository: branch name -> (path -> content)
    baseBranchSha,  \* the sha read by getRef (NoSha while unknown or undefined)
    newBranchName,  \* the branch name of the run (NoBranch before it is made up)
    uuidsIssued,    \* number of uuidv4() values drawn
    pair,           \* two runs of generatePullRequest side by side (see SpecPair)
    trip            \* a diff on its way through parsePatch and applyPatch
                    \*   (see SpecRoundTrip)

vars == <<variant, msg, handler, pipe, acks, calls, changeSet, fileSt, errors, remote,
          baseBranchSha, newBranchName, uuidsIssued, pair, trip>>

\* ------------------------------------------------------------ API calls
NoArgs ==
    [status |-> "pending", file |-> 0, owner |-> "", repo |-> "", issue_number |-> 0,
     path |-> "", ref |-> <<>>, branch |-> NoBranch, sha |-> NoSha, content |-> <<>>,
     body |-> <<>>, title |-> [issue |-> 0, issue_title |-> <<>>],
     prBody |-> [issue |-> 0, issue_title |-> <<>>],
     head |-> NoBranch, base |-> NoBranch, installation_id |-> 0,
     topic |-> "", data |-> <<>>]

Call(op, args) == args @@ [op |-> op] @@ NoArgs

Pending(op, file) ==
    {k \in DOMAIN calls : calls[k].op = op /\ calls[k].file = file
                          /\ calls[k].status = "pending"}

Answer(k, status) == [calls EXCEPT ![k].status = status]

Issued(op) == {k \in DOMAIN calls : calls[k].op = op}

\* The change set of the run: patchedFiles (subscriptions.js:109), or the parsed
\* diff (part_002:131, 296).
ChangeSetOf(v, patchResult) ==
    IF v = "subscriptions" THEN patchResult.patchedFiles
    ELSE parsePatch(patchResult.unifiedDiff)

\* The repository path an entry of the change set is read from and written to.
PathOf(entry) ==
    IF variant = "subscriptions" THEN entry.sourceFilePath ELSE Slice2(entry.oldFileName)

\* A write that goes to the path the entry names as its target.
WritePathOf_Target(entry) ==
    IF variant = "subscriptions" THEN entry.targetFilePath ELSE Slice2(entry.newFileName)

\* The path of the write (subscriptions.js:122, part_002:316, 148): the source path
\* once more.
WritePathOf(entry) ==
    IF variant = "subscriptions" THEN entry.sourceFilePath ELSE Slice2(entry.oldFileName)

\* ------------------------------------------------------------ the repository
\* The tree a ref names: a commit, a branch, or (no ref given) the default branch.
TreeAt(ref) == IF ref = NoSha THEN remote[baseBranchName] ELSE remote[ref]

\* The branch a write lands on: the one it names, else the default branch.
TargetBranch(c) == IF c.branch = NoBranch THEN baseBranchName ELSE c.branch

\* A write that is not conditional: the last one wins.
CanWrite_Unconditional(c) == TargetBranch(c) \in DOMAIN remote

\* The conditional write: the branch exists, and the sha presented is the sha of
\* the blob now at that path (none for a path that does not exist yet).
CanWrite(c) ==
    /\ TargetBranch(c) \in DOMAIN remote
    /\ IF c.path \in DOMAIN remote[TargetBranch(c)]
       THEN c.sha = BlobSha(remote[TargetBranch(c)][c.path])
       ELSE c.sha = NoSha

Written(c) ==
    LET b == TargetBranch(c)
        tree == remote[b]
    IN [remote EXCEPT ![b] = [q \in DOMAIN tree \cup {c.path} |->
                                 IF q = c.path THEN FromBase64(c.content) ELSE tree[q]]]

\* ------------------------------------------------------------ the handlers
Err(sink, step, names) == [sink |-> sink, step |-> step, names |-> names]

\* The repository a call names and the installation its Octokit is made for
\* (subscriptions.js:67-73, 160-166).
Repo == [owner |-> msg.taskInfo.repo_owner, repo |-> msg.taskInfo.repo_name,
         installation_id |-> msg.taskInfo.installation_id]

\* formatPatchResultMessage: the comment of the failure path.  "FENCE" is the
\* code fence of the template.
formatPatchResultMessage(patchResult) ==
    <<"Unified Diff:", "FENCE">> \o escapeMarkdown(DiffChars(patchResult.unifiedDiff))
      \o <<"FENCE", "Error Message:", "FENCE">> \o escapeMarkdown(patchResult.error)
      \o <<"FENCE">>

\* A dispatcher that forgets to look at the change set.
decide_IgnoringChangeSet(patchResult) ==
    IF Len(patchResult.error) = 0 THEN "GeneratePullRequest" ELSE "ReportFailure"

\* The condition of subscriptions.js:168.
decide(patchResult) ==
    IF Len(patchResult.patchedFiles) # 0 /\ Len(patchResult.error) = 0
    THEN "GeneratePullRequest" ELSE "ReportFailure"

GetRefCall == Call("getRef", Repo @@ [ref |-> <<"heads">> \o baseBranchName])

CommentCall ==
    Call("createComment",
         Repo @@ [issue_number |-> msg.taskInfo.issue_number,
                  body |-> formatPatchResultMessage(msg)])

\* process.env.INSTALLATION_ID (part_001:21): the one installation the process was
\* started for.
EnvInstallationId == 0

\* The comment of a build result.  The current handler and part_000 take the issue
\* and the installation from the message; part_001 names a fixed issue and uses
\* the installation of the process.
BuildCommentCall ==
    IF variant = "handleMessage1"
    THEN Call("createComment",
              [owner |-> "mathlilypeng", repo |-> "pubsub-hello-world",
               issue_number |-> 6, installation_id |-> EnvInstallationId,
               body |-> <<"Docker File:">>])
    ELSE Call("createComment",
              Repo @@ [issue_number |-> msg.taskInfo.issue_number,
                       body |-> <<"Docker File:">>])

\* No pair of runs is looked at.
PairIdle == [run |-> <<>>, remote |-> <<>>, uuids |-> 0, lastBranch |-> NoBranch,
             log |-> <<>>]

\* No diff is on its way.
TripIdle == [stage |-> "idle"]

Init ==
    /\ pair = PairIdle
    /\ trip = TripIdle
    /\ variant \in Variants
    /\ msg \in MessagesFor(variant)
    /\ \E tree \in TreePool : remote = [b \in {baseBranchName, HeadCommit} |-> tree]
    /\ handler = "idle"
    /\ pipe = "none"
    /\ acks = 0
    /\ calls = <<>>
    /\ changeSet = <<>>
    /\ fileSt = <<>>
    /\ errors = {}
    /\ baseBranchSha = NoSha
    /\ newBranchName = NoBranch
    /\ uuidsIssued = 0

\* The message arrives: the synchronous start of onPatchGenerationResult.
\*   subscriptions: dispatch, start generatePullRequest or makeComment without
\*     awaiting it, and ack;  a TypeError on the way ends the handler before the ack
\*   the evolutions: the pipeline is the handler itself, and nothing acks
OnPatchGenerationResult ==
    /\ variant \in PatchVariants
    /\ handler = "idle"
    /\ UNCHANGED <<trip, pair, variant, msg, changeSet, fileSt, remote, baseBranchSha, newBranchName,
                   uuidsIssued>>
    /\ IF variant # "subscriptions"
       THEN /\ handler' = "running"
            /\ pipe' = "getRef"
            /\ calls' = Append(calls, GetRefCall)
            /\ UNCHANGED <<acks, errors>>
       ELSE IF ~msg.hasPatchedFiles
              \/ (decide(msg) = "ReportFailure" /\ ~msg.hasUnifiedDiff)
       THEN /\ handler' = "threw"
            /\ errors' = errors \cup {Err("unhandledRejection", "TypeError", <<>>)}
            /\ UNCHANGED <<pipe, acks, calls>>
       ELSE /\ handler' = "returned"
            /\ acks' = acks + 1
            /\ errors' = errors
            /\ IF decide(msg) = "GeneratePullRequest"
               THEN pipe' = "getRef" /\ calls' = Append(calls, GetRefCall)
               ELSE pipe' = pipe /\ calls' = Append(calls, CommentCall)

\* The pipeline function rejects: generatePullRequest's promise is dropped by its
\* caller, the evolutions' handler promise by the subscription.
RejectsWith(errs, step, names) ==
    /\ pipe' = "rejected"
    /\ handler' = IF variant = "subscriptions" THEN handler ELSE "threw"
    /\ errors' = errs \cup {Err("unhandledRejection", step, names)}

Rejects(step, names) == RejectsWith(errors, step, names)

\* The catch of the first evolution's try block (part_002:115-116, 126-128) logs
\* and goes on; the later code rethrows.
SwallowsSetupErrors(v) == v = "evolution1"

\* A branch named after the issue alone.
CreateRef_IssueNumberOnly(cs, sha) ==
    LET name == <<"feature", msg.taskInfo.issue_number>>
    IN /\ uuidsIssued' = uuidsIssued + 1
       /\ newBranchName' = name
       /\ baseBranchSha' = sha
       /\ pipe' = "createRef"
       /\ calls' = Append(cs, Call("createRef",
                                   Repo @@ [ref |-> <<"refs", "heads">> \o name,
                                            branch |-> name, sha |-> sha]))

\* createRef is called with the sha read, on a branch named with a fresh uuid.
CreateRef(cs, sha) ==
    LET name == <<"feature", msg.taskInfo.issue_number, uuidsIssued + 1>>
    IN /\ uuidsIssued' = uuidsIssued + 1
       /\ newBranchName' = name
       /\ baseBranchSha' = sha
       /\ pipe' = "createRef"
       /\ calls' = Append(cs, Call("createRef",
                                   Repo @@ [ref |-> <<"refs", "heads">> \o name,
                                            branch |-> name, sha |-> sha]))

GetRefResponds ==
    /\ pipe = "getRef"
    /\ UNCHANGED <<trip, pair, variant, msg, acks, changeSet, fileSt, remote>>
    /\ \E k \in Pending("getRef", 0), ok \in BOOLEAN :
         IF ok
         THEN CreateRef(Answer(k, "ok"), HeadCommit) /\ UNCHANGED <<handler, errors>>
         ELSE IF SwallowsSetupErrors(variant)
         THEN /\ CreateRef(Answer(k, "failed"), NoSha)
              /\ errors' = errors \cup {Err("console", "getRef", <<>>)}
              /\ handler' = handler
         ELSE /\ Rejects("getRef", <<"heads">> \o baseBranchName)
              /\ calls' = Answer(k, "failed")
              /\ UNCHANGED <<baseBranchSha, newBranchName, uuidsIssued>>

\* ---- the fan-out over the change set
\* The first entry of a parsed diff that has no old file name (0 if none): reading
\* its .slice throws a TypeError in the middle of the map / forEach.
FirstUnnamed(patch) ==
    LET bad == {i \in DOMAIN patch : patch[i].oldFileName = Undefined}
    IN IF bad = {} THEN 0 ELSE CHOOSE i \in bad : \A j \in bad : i <= j

\* The number of entries the loop gets through.
Reach(patch) ==
    IF variant = "subscriptions" THEN Len(patch)
    ELSE LET u == FirstUnnamed(patch) IN IF u = 0 THEN Len(patch) ELSE u - 1

\* The first evolution leaves newly added files alone (part_002:133, 160-163).
Fetched(entry) == ~(variant = "evolution1" /\ entry.oldFileName = DevNull)

\* A fetch that reads the base branch as it is now instead of the commit.
FetchCall_ReadsBranchHead(i, entry) ==
    Call("getContent", Repo @@ [file |-> i, path |-> PathOf(entry), ref |-> baseBranchName])

FetchCall(i, entry) ==
    Call("getContent", Repo @@ [file |-> i, path |-> PathOf(entry), ref |-> baseBranchSha])

RECURSIVE FetchCalls(_, _, _)
FetchCalls(patch, i, n) ==
    IF i > n THEN <<>>
    ELSE (IF Fetched(patch[i]) THEN <<FetchCall(i, patch[i])>> ELSE <<>>)
           \o FetchCalls(patch, i + 1, n)

\* pulls.create: the later evolution adds a body (subscriptions.js:148-149).
PullCall ==
    Call("createPull",
         Repo @@ [title |-> [issue |-> msg.taskInfo.issue_number, issue_title |-> <<>>],
                  head |-> newBranchName, base |-> baseBranchName,
                  prBody |-> IF variant = "subscriptions"
                             THEN [issue |-> msg.taskInfo.issue_number,
                                   issue_title |-> msg.taskInfo.issue_title]
                             ELSE NoArgs.prBody])

\* A catch that logs the error of a file and lets its chain end normally.
CatchRethrows_LogsOnly(v) == FALSE

\* The catch at the end of a file's chain rethrows (subscriptions.js:133-136,
\* part_002:327-330); the first evolution's logs (part_002:159).
CatchRethrows(v) == v \in {"subscriptions", "evolution2"}

\* The promise of entry i's chain is fulfilled.
FileFulfilled(fs, i) ==
    fs[i] = "ok" \/ (fs[i] = "failed" /\ ~CatchRethrows(variant))

\* await Promise.all(fileUpdatePromises): once every promise is fulfilled the
\* pipeline calls pulls.create, does not wait for it, and returns.
Join(cs, fs, errs) ==
    /\ fileSt' = fs
    /\ errors' = errs
    /\ IF pipe = "files" /\ \A i \in DOMAIN fs : FileFulfilled(fs, i)
       THEN /\ calls' = Append(cs, PullCall)
            /\ pipe' = "fulfilled"
            /\ handler' = IF variant = "subscriptions" THEN handler ELSE "returned"
       ELSE calls' = cs /\ UNCHANGED <<pipe, handler>>

\* A chain that fetches its file once more when a step of it has failed.
FileFails_Refetches(i, cs, step) ==
    IF Cardinality({k \in DOMAIN cs : cs[k].op = "getContent" /\ cs[k].file = i}) < 2
    THEN /\ calls' = Append(cs, FetchCall(i, changeSet[i]))
         /\ fileSt' = [fileSt EXCEPT ![i] = "getContent"]
         /\ UNCHANGED <<pipe, handler, errors>>
    ELSE /\ calls' = cs
         /\ fileSt' = [fileSt EXCEPT ![i] = "failed"]
         /\ UNCHANGED <<pipe, handler, errors>>

\* Entry i's chain fails at `step`.  A rethrown error rejects Promise.all at once,
\* whatever the other chains are doing; after that, further rejections are absorbed.
FileFails(i, cs, step) ==
    LET fs == [fileSt EXCEPT ![i] = "failed"]
        named == <<PathOf(changeSet[i])>>
    IN IF ~CatchRethrows(variant)
       THEN Join(cs, fs, errors \cup {Err("console", step, named)})
       ELSE /\ fileSt' = fs
            /\ calls' = cs
            /\ IF pipe = "files"
               THEN Rejects(step, named)
               ELSE UNCHANGED <<pipe, handler, errors>>

\* The code after the branch creation: parse the diff (the evolutions) and start
\* one chain per entry, all in the same turn.
StartFiles(cs, errs) ==
    IF variant # "subscriptions" /\ ~msg.hasUnifiedDiff
    THEN /\ RejectsWith(errs, "TypeError", <<>>)
         /\ calls' = cs
         /\ UNCHANGED <<changeSet, fileSt>>
    ELSE LET patch == ChangeSetOf(variant, msg)
             n == Len(patch)
             reach == Reach(patch)
             fs == [i \in 1..n |-> IF i > reach THEN "none"
                                   ELSE IF Fetched(patch[i]) THEN "getContent"
                                   ELSE "skipped"]
             started == cs \o FetchCalls(patch, 1, reach)
         IN /\ changeSet' = patch
            /\ fileSt' = fs
            /\ IF reach < n
               THEN RejectsWith(errs, "TypeError", <<>>) /\ calls' = started
               ELSE /\ errors' = errs
                    /\ IF variant = "evolution1"
                       THEN pipe' = "fulfilled" /\ handler' = "returned" /\ calls' = started
                       ELSE IF n = 0
                       THEN /\ pipe' = "fulfilled"
                            /\ handler' = IF variant = "subscriptions" THEN handler
                                          ELSE "returned"
                            /\ calls' = Append(started, PullCall)
                       ELSE pipe' = "files" /\ handler' = handler /\ calls' = started

CreateRefResponds ==
    /\ pipe = "createRef"
    /\ UNCHANGED <<trip, pair, variant, msg, acks, baseBranchSha, newBranchName, uuidsIssued>>
    /\ \E k \in Pending("createRef", 0), ok \in BOOLEAN :
         LET c == calls[k]
         IN /\ ok => (c.sha \in DOMAIN remote /\ c.branch \notin DOMAIN remote)
            /\ IF ok
               THEN /\ remote' = [b \in DOMAIN remote \cup {c.branch} |->
                                    IF b = c.branch THEN remote[c.sha] ELSE remote[b]]
                    /\ StartFiles(Answer(k, "ok"), errors)
               ELSE /\ remote' = remote
                    /\ IF SwallowsSetupErrors(variant)
                       THEN StartFiles(Answer(k, "failed"),
                                       errors \cup {Err("console", "createRef", <<>>)})
                       ELSE /\ Rejects("createRef", newBranchName)
                            /\ calls' = Answer(k, "failed")
                            /\ UNCHANGED <<changeSet, fileSt>>

\* A write that presents no sha of its own reading.
WriteCall_WithoutReadSha(i, content, sha) ==
    Call("createOrUpdateFileContents",
         Repo @@ [file |-> i, path |-> PathOf(changeSet[i]),
                  content |-> Base64(content), sha |-> NoSha,
                  branch |-> newBranchName])

\* The write a chain issues once the content is there: the sha of the response,
\* and the new branch, which the first evolution leaves out (part_002:145-156).
WriteCall(i, content, sha) ==
    Call("createOrUpdateFileContents",
         Repo @@ [file |-> i, path |-> WritePathOf(changeSet[i]),
                  content |-> Base64(content), sha |-> sha,
                  branch |-> IF variant = "evolution1" THEN NoBranch ELSE newBranchName])

\* An apply whose result nobody looks at.
ApplyFailed_Unchecked(update) == FALSE

\* The check of the library's answer: `update === false` throws (part_002:309-311);
\* in the first evolution Buffer.from(false) throws in its place (part_002:150).
ApplyFailed(update) == ~update.ok

GetContentResponds ==
    /\ UNCHANGED <<trip, pair, variant, msg, acks, changeSet, remote, baseBranchSha, newBranchName,
                   uuidsIssued>>
    /\ \E i \in DOMAIN fileSt, ok \in BOOLEAN : \E k \in Pending("getContent", i) :
         LET c == calls[k]
             entry == changeSet[i]
         IN /\ ok => c.path \in DOMAIN TreeAt(c.ref)
            /\ IF ~ok THEN FileFails(i, Answer(k, "failed"), "getContent")
               ELSE LET stored == TreeAt(c.ref)[c.path]
                        response == [content |-> Base64(stored), sha |-> BlobSha(stored)]
                        update == IF variant = "subscriptions"
                                  THEN [ok |-> TRUE, content |-> entry.targetFileContent]
                                  ELSE applyPatch(FromBase64(response.content), entry)
                    IN IF ApplyFailed(update) THEN FileFails(i, Answer(k, "ok"), "applyPatch")
                       ELSE /\ calls' = Append(Answer(k, "ok"),
                                               WriteCall(i, update.content, response.sha))
                            /\ fileSt' = [fileSt EXCEPT ![i] = "write"]
                            /\ UNCHANGED <<pipe, handler, errors>>

WriteResponds ==
    /\ UNCHANGED <<trip, pair, variant, msg, acks, changeSet, baseBranchSha, newBranchName,
                   uuidsIssued>>
    /\ \E i \in DOMAIN fileSt, ok \in BOOLEAN :
       \E k \in Pending("createOrUpdateFileContents", i) :
         LET c == calls[k]
         IN /\ ok => CanWrite(c)
            /\ IF ok
               THEN /\ remote' = Written(c)
                    /\ Join(Answer(k, "ok"), [fileSt EXCEPT ![i] = "ok"], errors)
               ELSE /\ remote' = remote
                    /\ IF variant = "evolution1"
                       THEN \* the promise of the write was dropped inside the chain
                            /\ fileSt' = [fileSt EXCEPT ![i] = "failed"]
                            /\ calls' = Answer(k, "failed")
                            /\ errors' = errors \cup
                                 {Err("unhandledRejection", "write", <<c.path>>)}
                            /\ UNCHANGED <<pipe, handler>>
                       ELSE FileFails(i, Answer(k, "failed"), "write")

\* pulls.create and createComment answer; a failure is thrown inside a promise
\* nobody holds.
PullResponds ==
    /\ UNCHANGED <<trip, pair, variant, msg, handler, pipe, acks, changeSet, fileSt, remote,
                   baseBranchSha, newBranchName, uuidsIssued>>
    /\ \E k \in Pending("createPull", 0), ok \in BOOLEAN :
         IF ok THEN calls' = Answer(k, "ok") /\ errors' = errors
         ELSE /\ calls' = Answer(k, "failed")
              /\ errors' = errors \cup {Err("unhandledRejection", "createPull", <<>>)}

\* A makeComment that tries once more when the first post has failed.
CommentResponds_Retries ==
    /\ variant \in {"subscriptions", "buildResult"}
    /\ UNCHANGED <<trip, pair, variant, msg, handler, pipe, acks, changeSet, fileSt, remote,
                   baseBranchSha, newBranchName, uuidsIssued>>
    /\ \E k \in Pending("createComment", 0), ok \in BOOLEAN :
         IF ok THEN calls' = Answer(k, "ok") /\ errors' = errors
         ELSE /\ calls' = IF Len(calls) < 2 THEN Append(Answer(k, "failed"), CommentCall)
                          ELSE Answer(k, "failed")
              /\ errors' = errors \cup {Err("console", "createComment", <<>>)}

CommentResponds ==
    /\ variant \in {"subscriptions", "buildResult"}
    /\ UNCHANGED <<trip, pair, variant, msg, handler, pipe, acks, changeSet, fileSt, remote,
                   baseBranchSha, newBranchName, uuidsIssued>>
    /\ \E k \in Pending("createComment", 0), ok \in BOOLEAN :
         IF ok THEN calls' = Answer(k, "ok") /\ errors' = errors
         ELSE /\ calls' = Answer(k, "failed")
              /\ errors' = errors \cup {Err("unhandledRejection", "createComment", <<>>)}

\* A build result arrives: the synchronous start of the build-result handler.
\* formatBuildResultMessage throws a TypeError when the result has no history, and
\* the handler ends there.  The current handler starts makeComment without awaiting
\* it and acks; the older ones await createComment.
OnBobTheBuilderResult ==
    /\ variant \in BuildVariants
    /\ handler = "idle"
    /\ UNCHANGED <<trip, pair, variant, msg, pipe, changeSet, fileSt, remote, baseBranchSha,
                   newBranchName, uuidsIssued>>
    /\ IF ~msg.hasHistory
       THEN /\ handler' = "threw"
            /\ errors' = errors \cup {Err("unhandledRejection", "TypeError", <<>>)}
            /\ UNCHANGED <<acks, calls>>
       ELSE /\ calls' = Append(calls, BuildCommentCall)
            /\ errors' = errors
            /\ IF variant = "buildResult"
               THEN handler' = "returned" /\ acks' = acks + 1
               ELSE handler' = "running" /\ acks' = acks

\* Whether the handler reaches message.ack() after its catch block: part_002:256
\* returns from the catch block.
AcksAfterFailure(v) == v # "buildResult2"

\* The awaited createComment of the older build-result handlers answers: a failure
\* is logged in the catch block.
AwaitedCommentResponds ==
    /\ variant \in BuildVariants \ {"buildResult"}
    /\ handler = "running"
    /\ UNCHANGED <<trip, pair, variant, msg, pipe, changeSet, fileSt, remote, baseBranchSha,
                   newBranchName, uuidsIssued>>
    /\ \E k \in Pending("createComment", 0), ok \in BOOLEAN :
         /\ handler' = "returned"
         /\ IF ok
            THEN /\ calls' = Answer(k, "ok")
                 /\ errors' = errors
                 /\ acks' = acks + 1
            ELSE /\ calls' = Answer(k, "failed")
                 /\ errors' = errors \cup {Err("console", "createComment", <<>>)}
                 /\ acks' = IF AcksAfterFailure(variant) THEN acks + 1 ELSE acks

\* The topic an opened issue is published to (webhook-handlers.js:52-58).
TopicFor(title) ==
    IF Contains(toLowerCase(title), <<"docker", " ", "file">>)
    THEN "bobTheBuilderTopic" ELSE "patchGenerationTaskTopic"

\* The note that the issue has been received (webhook-handlers.js:54-56, 59-60).
NoticeCall ==
    Call("createComment",
         Repo @@ [issue_number |-> msg.taskInfo.issue_number,
                  body |-> <<"We have received", TopicFor(msg.taskInfo.issue_title)>>])

\* An issue is opened: the handler builds issueInfo and publishMessage starts the
\* publish, which the handler awaits.
OnIssueOpened ==
    /\ variant = "issueOpened"
    /\ handler = "idle"
    /\ handler' = "running"
    /\ calls' = Append(calls, Call("publish", [topic |-> TopicFor(msg.taskInfo.issue_title),
                                               data |-> msg.taskInfo]))
    /\ UNCHANGED <<trip, pair, variant, msg, pipe, acks, changeSet, fileSt, errors, remote,
                   baseBranchSha, newBranchName, uuidsIssued>>

\* A publishMessage that lets the error of the publish through.
PublishSettles_Rethrows(ok) == ok

\* publishMessage returns normally whatever the publish did: its catch block logs
\* (webhook-handlers.js:17-19).
PublishSettles(ok) == TRUE

\* The publish answers.  The handler goes on to createComment, which it does not
\* await, and returns.
PublishResponds ==
    /\ variant = "issueOpened"
    /\ UNCHANGED <<trip, pair, variant, msg, pipe, acks, changeSet, fileSt, remote,
                   baseBranchSha, newBranchName, uuidsIssued>>
    /\ \E k \in Pending("publish", 0), ok \in BOOLEAN :
         LET answered == Answer(k, IF ok THEN "ok" ELSE "failed")
         IN IF PublishSettles(ok)
            THEN /\ calls' = Append(answered, NoticeCall)
                 /\ handler' = "returned"
                 /\ errors' = IF ok THEN errors
                               ELSE errors \cup {Err("console", "publish", <<>>)}
            ELSE /\ calls' = answered
                 /\ handler' = "threw"
                 /\ errors' = errors \cup {Err("unhandledRejection", "publish", <<>>)}

\* createComment of webhook-handlers.js:22-37 answers: a failure is logged.
NoticeResponds ==
    /\ variant = "issueOpened"
    /\ UNCHANGED <<trip, pair, variant, msg, handler, pipe, acks, changeSet, fileSt, remote,
                   baseBranchSha, newBranchName, uuidsIssued>>
    /\ \E k \in Pending("createComment", 0), ok \in BOOLEAN :
         IF ok THEN calls' = Answer(k, "ok") /\ errors' = errors
         ELSE /\ calls' = Answer(k, "failed")
              /\ errors' = errors \cup {Err("console", "createComment", <<>>)}

\* Somebody else pushes a commit to the base branch while the run is between its
\* getRef and its pull request: main.py reads differently on the branch from then
\* on.  The commit getRef named keeps its tree.  One push is looked at, during the
\* first run of a message; the message is not handed over again after it.
MainMoved == remote[baseBranchName] # remote[HeadCommit]

PushToMain ==
    /\ variant \in {"subscriptions", "evolution2"}
    /\ pipe \in {"createRef", "files"}
    /\ uuidsIssued = 1
    /\ ~MainMoved
    /\ remote' = [remote EXCEPT ![baseBranchName] =
                    [q \in DOMAIN @ |-> IF q = "main.py" THEN <<"z">> ELSE @[q]]]
    /\ UNCHANGED <<trip, pair, variant, msg, handler, pipe, acks, calls, changeSet, fileSt,
                   errors, baseBranchSha, newBranchName, uuidsIssued>>

\* The subscription hands the message to the handler again (a redelivery, or the
\* next result for the same issue) once the run before has come to rest.  The
\* repository keeps what that run left; the handler starts from nothing.
Redeliver ==
    /\ variant \notin {"evolution1", "issueOpened"}
    /\ ~MainMoved
    /\ uuidsIssued < MaxRuns
    /\ handler \in {"returned", "threw"}
    /\ \A k \in DOMAIN calls : calls[k].status # "pending"
    /\ handler' = "idle"
    /\ pipe' = "none"
    /\ acks' = 0
    /\ calls' = <<>>
    /\ changeSet' = <<>>
    /\ fileSt' = <<>>
    /\ errors' = {}
    /\ baseBranchSha' = NoSha
    /\ newBranchName' = NoBranch
    /\ UNCHANGED <<trip, pair, variant, msg, remote, uuidsIssued>>

Next ==
    \/ OnPatchGenerationResult
    \/ GetRefResponds
    \/ CreateRefResponds
    \/ GetContentResponds
    \/ WriteResponds
    \/ PullResponds
    \/ CommentResponds
    \/ Redeliver
    \/ OnBobTheBuilderResult
    \/ AwaitedCommentResponds
    \/ OnIssueOpened
    \/ PublishResponds
    \/ NoticeResponds
    \/ PushToMain

Spec == Init /\ [][Next]_vars

\* ------------------------------------------------------------ two runs at once
\* Two patch results are being handled at the same time by the current handler
\* (subscriptions.js:85-179): two calls of generatePullRequest whose steps
\* interleave at every await.  Each call has its own locals (pair.run[r]); the
\* repository and the uuid source are the only things both touch.  Each message
\* carries one patchedFiles entry, for main.py.
PairRuns == 1..2

\* The issue numbers of the two messages: one redelivered, or two issues.
PairIssues == {<<7, 7>>, <<7, 8>>}

\* The target content of run r's entry.
PairContent(r) == <<"fix", r>>

PairPath == "main.py"

PairRun(issue) == [issue |-> issue, pc |-> "idle", sha |-> NoSha, branch |-> NoBranch,
                   writeTo |-> NoBranch, writeSha |-> NoSha]

PairLog(r, op, branch) ==
    [run |-> r, op |-> op, branch |-> branch, issue |-> pair.run[r].issue]

\* A newBranchName that lives at module level: every run reads the last one set.
BranchInScope_ModuleLevel(r) == pair.lastBranch

\* `const newBranchName` is a local of the call (subscriptions.js:98).
BranchInScope(r) == pair.run[r].branch

InitPair ==
    /\ \E is \in PairIssues :
          pair = [run |-> [r \in PairRuns |-> PairRun(is[r])],
                  remote |-> [b \in {baseBranchName, HeadCommit} |-> TreeBoth],
                  uuids |-> 0, lastBranch |-> NoBranch, log |-> <<>>]
    /\ trip = TripIdle
    /\ variant = "subscriptions"
    /\ msg = Message(<<>>, FALSE, <<>>, TRUE, <<PatchedFile(PairPath, PairPath, <<>>)>>)
    /\ remote = [b \in {baseBranchName, HeadCommit} |-> TreeBoth]
    /\ handler = "idle"
    /\ pipe = "none"
    /\ acks = 0
    /\ calls = <<>>
    /\ changeSet = <<>>
    /\ fileSt = <<>>
    /\ errors = {}
    /\ baseBranchSha = NoSha
    /\ newBranchName = NoBranch
    /\ uuidsIssued = 0

PairFrame == UNCHANGED <<trip, variant, msg, handler, pipe, acks, calls, changeSet, fileSt,
                         errors, remote, baseBranchSha, newBranchName, uuidsIssued>>

\* A message arrives: the handler starts generatePullRequest, which calls getRef.
PairReceives ==
    /\ PairFrame
    /\ \E r \in PairRuns :
          /\ pair.run[r].pc = "idle"
          /\ pair' = [pair EXCEPT !.run[r].pc = "getRef"]

\* getRef answers: the run names its branch with a fresh uuid and calls createRef.
PairGetRefResponds ==
    /\ PairFrame
    /\ \E r \in PairRuns, ok \in BOOLEAN :
          /\ pair.run[r].pc = "getRef"
          /\ IF ok
             THEN LET name == <<"feature", pair.run[r].issue, pair.uuids + 1>>
                  IN pair' = [pair EXCEPT !.run[r].pc = "createRef",
                                          !.run[r].sha = HeadCommit,
                                          !.run[r].branch = name,
                                          !.lastBranch = name,
                                          !.uuids = @ + 1,
                                          !.log = Append(@, PairLog(r, "createRef", name))]
             ELSE pair' = [pair EXCEPT !.run[r].pc = "rejected"]

\* createRef answers: the branch is cut from the commit, and the file is fetched.
PairCreateRefResponds ==
    /\ PairFrame
    /\ \E r \in PairRuns, ok \in BOOLEAN :
          LET name == pair.run[r].branch
          IN /\ pair.run[r].pc = "createRef"
             /\ ok => name \notin DOMAIN pair.remote
             /\ IF ok
                THEN pair' = [pair EXCEPT
                                !.run[r].pc = "getContent",
                                !.remote = [b \in DOMAIN pair.remote \cup {name} |->
                                              IF b = name THEN pair.remote[pair.run[r].sha]
                                              ELSE pair.remote[b]]]
                ELSE pair' = [pair EXCEPT !.run[r].pc = "rejected"]

\* getContent answers: the write is issued, to the branch name in scope.
PairGetContentResponds ==
    /\ PairFrame
    /\ \E r \in PairRuns, ok \in BOOLEAN :
          /\ pair.run[r].pc = "getContent"
          /\ IF ok
             THEN pair' = [pair EXCEPT
                             !.run[r].pc = "write",
                             !.run[r].writeTo = BranchInScope(r),
                             !.run[r].writeSha =
                                BlobSha(pair.remote[pair.run[r].sha][PairPath]),
                             !.log = Append(@, PairLog(r, "write", BranchInScope(r)))]
             ELSE pair' = [pair EXCEPT !.run[r].pc = "rejected"]

\* The write answers: on success Promise.all fulfils and pulls.create is called.
PairWriteResponds ==
    /\ PairFrame
    /\ \E r \in PairRuns, ok \in BOOLEAN :
          LET b == pair.run[r].writeTo
          IN /\ pair.run[r].pc = "write"
             /\ ok => /\ b \in DOMAIN pair.remote
                       /\ pair.run[r].writeSha = BlobSha(pair.remote[b][PairPath])
             /\ IF ok
                THEN pair' = [pair EXCEPT
                                !.run[r].pc = "pull",
                                !.remote[b][PairPath] = PairContent(r),
                                !.log = Append(@, PairLog(r, "createPull", BranchInScope(r)))]
                ELSE pair' = [pair EXCEPT !.run[r].pc = "rejected"]

\* pulls.create answers.
PairPullResponds ==
    /\ PairFrame
    /\ \E r \in PairRuns :
          /\ pair.run[r].pc = "pull"
          /\ pair' = [pair EXCEPT !.run[r].pc = "done"]

NextPair ==
    \/ PairReceives
    \/ PairGetRefResponds
    \/ PairCreateRefResponds
    \/ PairGetContentResponds
    \/ PairWriteResponds
    \/ PairPullResponds

SpecPair == InitPair /\ [][NextPair]_vars

\* ------------------------------------------------------------ diff round trip
\* The handler's use of the diff library on its own (part_002:296, 307-312): a
\* diff made upstream from an original and a target content is parsed, and the
\* parsed file patch is applied to the original.
Contents == UNION {[1..k -> {"a", "b"}] : k \in 0..MaxLines}

\* The length of the longest common prefix of two line sequences.
RECURSIVE CommonPrefix(_, _)
CommonPrefix(s, t) ==
    IF s # <<>> /\ t # <<>> /\ Head(s) = Head(t)
    THEN 1 + CommonPrefix(Tail(s), Tail(t)) ELSE 0

Reverse(s) == [k \in 1..Len(s) |-> s[Len(s) + 1 - k]]

\* diff_of: the unified diff of one file, as one hunk over the whole file: the
\* common first lines as context, the old middle removed, the new middle added,
\* the common last lines as context.  Equal contents give the empty diff.
DiffOf(original, target) ==
    IF original = target THEN <<>>
    ELSE LET p == CommonPrefix(original, target)
             o == SubSeq(original, p + 1, Len(original))
             t == SubSeq(target, p + 1, Len(target))
             q == CommonPrefix(Reverse(o), Reverse(t))
             ctx(ls) == [k \in 1..Len(ls) |-> Body(" ", ls[k])]
             del == [k \in 1..(Len(o) - q) |-> Body("-", o[k])]
             add == [k \in 1..(Len(t) - q) |-> Body("+", t[k])]
         IN <<OldHeader("a/main.py"), NewHeader("b/main.py"),
              HunkHeader(IF original = <<>> THEN 0 ELSE 1, Len(original),
                         IF target = <<>> THEN 0 ELSE 1, Len(target))>>
              \o ctx(SubSeq(original, 1, p)) \o del \o add
              \o ctx(SubSeq(o, Len(o) - q + 1, Len(o)))

TripFrame == UNCHANGED <<pair, variant, msg, handler, pipe, acks, calls, changeSet,
                         fileSt, errors, remote, baseBranchSha, newBranchName,
                         uuidsIssued>>

InitRoundTrip ==
    /\ \E o \in Contents, t \in Contents :
          trip = [stage |-> "contents", original |-> o, target |-> t]
    /\ pair = PairIdle
    /\ variant = "evolution2"
    /\ msg = Message(<<>>, TRUE, <<>>, FALSE, <<>>)
    /\ remote = [b \in {baseBranchName, HeadCommit} |-> TreeBoth]
    /\ handler = "idle"
    /\ pipe = "none"
    /\ acks = 0
    /\ calls = <<>>
    /\ changeSet = <<>>
    /\ fileSt = <<>>
    /\ errors = {}
    /\ baseBranchSha = NoSha
    /\ newBranchName = NoBranch
    /\ uuidsIssued = 0

\* Upstream makes the diff.
TripDiff ==
    /\ TripFrame
    /\ trip.stage = "contents"
    /\ trip' = [stage |-> "diff", original |-> trip.original, target |-> trip.target,
                unifiedDiff |-> DiffOf(trip.original, trip.target)]

\* const patch = diff.parsePatch(unifiedDiff)
TripParse ==
    /\ TripFrame
    /\ trip.stage = "diff"
    /\ trip' = [stage |-> "parsed", original |-> trip.original, target |-> trip.target,
                patch |-> parsePatch(trip.unifiedDiff)]

\* const update = diff.applyPatch(originalContent, filePatch), for the one file
\* patch of the diff.
TripApply ==
    /\ TripFrame
    /\ trip.stage = "parsed"
    /\ trip' = [stage |-> "applied", original |-> trip.original, target |-> trip.target,
                sections |-> Len(trip.patch),
                update |-> applyPatch(trip.original, trip.patch[1])]

NextRoundTrip ==
    \/ TripDiff
    \/ TripParse
    \/ TripApply

SpecRoundTrip == InitRoundTrip /\ [][NextRoundTrip]_vars

\* ------------------------------------------------------------ properties
\* Every call has been answered and no handler code is left to run.
Quiescent ==
    /\ handler \in {"returned", "threw"}
    /\ \A k \in DOMAIN calls : calls[k].status # "pending"

Writes == Issued("createOrUpdateFileContents")

BranchCreatedBefore(k) ==
    \E j \in 1..(k - 1) : calls[j].op = "createRef" /\ calls[j].status = "ok"

\* C1: the branch is created successfully before any file write and before the
\* pull-request creation is issued, and every write names the new branch, never
\* the base branch.
C1_BranchBeforeWrites ==
    \A k \in DOMAIN calls :
       /\ calls[k].op \in {"createOrUpdateFileContents", "createPull"}
            => BranchCreatedBefore(k)
       /\ calls[k].op = "createOrUpdateFileContents"
            => calls[k].branch = newBranchName /\ TargetBranch(calls[k]) # baseBranchName

\* C2: once create_pull_request has been issued, every entry of the change set
\* has a successful write; with a failed fetch, apply or write it is never issued.
C2_PullOnlyAfterAllWrites ==
    Issued("createPull") # {} =>
       \A i \in DOMAIN fileSt :
          /\ fileSt[i] = "ok"
          /\ \E k \in Writes : calls[k].file = i /\ calls[k].status = "ok"

C2_Witness ==
    /\ Issued("createPull") # {}
    /\ Len(fileSt) >= 2

\* The change set of the message is not empty.
HasChanges ==
    IF variant = "subscriptions"
    THEN msg.hasPatchedFiles /\ msg.patchedFiles # <<>>
    ELSE msg.hasUnifiedDiff /\ msg.unifiedDiff # <<>>

\* C3: the pull-request pipeline is started if and only if the error is empty and
\* the change set is not; in every other case the comment path is taken.
C3_DispatchTable ==
    (variant \in {"subscriptions", "evolution2"} /\ handler # "idle") =>
       /\ Issued("getRef") # {} <=> (msg.error = <<>> /\ HasChanges)
       /\ ~(msg.error = <<>> /\ HasChanges) => Issued("createComment") # {}

\* C4: a result with a non-empty error gets a comment whose text contains the
\* error string, whether or not the result carries a unified diff.
C4_ErrorCommentContainsError ==
    (variant = "subscriptions" /\ handler # "idle" /\ msg.hasPatchedFiles
       /\ msg.error # <<>>) =>
       \E k \in Issued("createComment") : Contains(calls[k].body, msg.error)

C6_AckedExactlyOnce ==
    variant = "subscriptions" =>
       /\ acks <= 1
       /\ Quiescent => acks = 1

\* C7: a finished run has issued either the pull request or a comment, and not
\* both.
C7_ExactlyOneOutcome ==
    (variant = "subscriptions" /\ msg.hasPatchedFiles /\ msg.hasUnifiedDiff
       /\ Quiescent) =>
       (Issued("createPull") # {}) # (Issued("createComment") # {})

Failed(op) == {k \in Issued(op) : calls[k].status = "failed"}

\* C8: after a failed base-ref lookup nothing else is called, and the failure
\* that is reported names the ref.
C8_AbortOnRefFailure ==
    Failed("getRef") # {} =>
       /\ \A op \in {"createRef", "getContent", "createOrUpdateFileContents",
                     "createPull"} : Issued(op) = {}
       /\ \E e \in errors : e.step = "getRef" /\ e.names = <<"heads", "main">>

\* C9: after a failed branch creation no content is fetched, no file is written
\* and no pull request is created.
C9_AbortOnBranchFailure ==
    Failed("createRef") # {} =>
       \A op \in {"getContent", "createOrUpdateFileContents", "createPull"} :
          Issued(op) = {}

\* C10: the pipeline leaves the fan-out, to the pull request or to the failure,
\* only when every entry of the change set has its outcome.
C10_JoinBarrier ==
    (variant = "subscriptions" /\ pipe \in {"fulfilled", "rejected"}) =>
       \A i \in DOMAIN fileSt : fileSt[i] \in {"ok", "failed"}

FailedFiles == {i \in DOMAIN fileSt : fileSt[i] = "failed"}

\* C11: when a file of the change set has failed, the finished run has posted a
\* comment and has created no pull request.
C11_FileFailureIsCommented ==
    (variant = "subscriptions" /\ Quiescent /\ FailedFiles # {}) =>
       /\ Issued("createPull") = {}
       /\ Issued("createComment") # {}

\* The errors of the run that stem from the chain of a file.
FileErrors == {e \in errors : e.step \in {"getContent", "applyPatch", "write"}}

\* Entry j's content is what the new branch holds at its path.
Committed(j) ==
    /\ newBranchName \in DOMAIN remote
    /\ PathOf(changeSet[j]) \in DOMAIN remote[newBranchName]
    /\ \E k \in Writes :
          /\ calls[k].file = j /\ calls[k].status = "ok"
          /\ remote[newBranchName][calls[k].path] = FromBase64(calls[k].content)

\* C12: when exactly one of the files has failed and the others have their
\* outcome, there is no pull request, the failure reported on the issue names
\* that file and no other, and the other files are committed on the new branch.
C12_OneFailureLeavesTheRest ==
    (variant \in {"subscriptions", "evolution2"} /\ Quiescent
       /\ Cardinality(FailedFiles) = 1
       /\ \A j \in DOMAIN fileSt : fileSt[j] \in {"ok", "failed"}) =>
       /\ Issued("createPull") = {}
       /\ Issued("createComment") # {}
       /\ \A e \in FileErrors : \E i \in FailedFiles : e.names = <<PathOf(changeSet[i])>>
       /\ \A j \in DOMAIN fileSt \ FailedFiles : Committed(j)

\* C13: every write presents the blob sha that an earlier getContent of the same
\* run read for the same path, a file is written at most once, a failed write
\* fails its file, and what the new branch holds at a path is the base content
\* or the content of a write that succeeded.
C13_WritePresentsReadSha ==
    variant \in {"subscriptions", "evolution2"} =>
       /\ \A k \in Writes :
             /\ \E j \in 1..(k - 1) :
                   /\ calls[j].op = "getContent" /\ calls[j].status = "ok"
                   /\ calls[j].file = calls[k].file /\ calls[j].path = calls[k].path
                   /\ calls[k].sha = BlobSha(TreeAt(calls[j].ref)[calls[j].path])
             /\ Cardinality({w \in Writes : calls[w].file = calls[k].file}) = 1
             /\ calls[k].status = "failed" =>
                   fileSt[calls[k].file] = "failed" /\ Issued("createPull") = {}
       /\ newBranchName \in DOMAIN remote =>
             \A p \in DOMAIN remote[newBranchName] :
                \/ /\ p \in DOMAIN remote[HeadCommit]
                   /\ remote[newBranchName][p] = remote[HeadCommit][p]
                \/ \E k \in Writes :
                      /\ calls[k].status = "ok" /\ calls[k].path = p
                      /\ remote[newBranchName][p] = FromBase64(calls[k].content)

\* Two entries for one path: the first write went through, the second was stale.
C13_Witness ==
    \E k1, k2 \in Writes :
       /\ calls[k1].path = calls[k2].path /\ calls[k1].sha = calls[k2].sha
       /\ calls[k1].status = "ok" /\ calls[k2].status = "failed"
       /\ ~CanWrite(calls[k2])

\* C14: the branch a run asks for is not a branch the repository already has, so
\* runs for one issue never ask for the same name twice.
C14_BranchNamesDistinct ==
    \A k \in Issued("createRef") :
       calls[k].status = "pending" => calls[k].branch \notin DOMAIN remote

\* The second run for the issue has its branch next to the first run's.
C14_Witness ==
    /\ uuidsIssued = 2
    /\ \E k \in Issued("createRef") : calls[k].status = "ok"
    /\ {<<"feature", msg.taskInfo.issue_number, u>> : u \in 1..2} \subseteq DOMAIN remote

\* C15: the message is acked only when its run has its outcome: the pull request
\* or the comment has been answered, and no call of the run is still pending.
C15_AckAfterOutcome ==
    (variant = "subscriptions" /\ acks > 0) =>
       /\ \E k \in Issued("createPull") \cup Issued("createComment") :
             calls[k].status # "pending"
       /\ \A k \in DOMAIN calls : calls[k].status # "pending"

\* C16: a failed pull-request creation is an outcome of the run (the pipeline
\* rejects, or a comment reports it), and the branch with its files stays.
C16_PullFailureReported ==
    (variant \in {"subscriptions", "evolution2"} /\ Failed("createPull") # {}) =>
       /\ pipe = "rejected" \/ Issued("createComment") # {}
       /\ newBranchName \in DOMAIN remote
       /\ \A k \in Writes : calls[k].path \in DOMAIN remote[newBranchName]

\* C17: a run posts at most one comment, and a failed post is the last call of
\* the run.
C17_CommentPostedOnce ==
    variant = "subscriptions" =>
       /\ Cardinality(Issued("createComment")) <= 1
       /\ \A k \in Failed("createComment") : k = Len(calls)

\* The one post has failed and the run is over.
C17_Witness ==
    /\ variant = "subscriptions"
    /\ Failed("createComment") # {}
    /\ Quiescent

\* C18: an entry whose old file name is the null device is never fetched, and
\* once its chain is through, the new branch holds its file, made of the added
\* lines of the patch.
C18_NewFileCreatedWithoutFetch ==
    variant \in {"evolution1", "evolution2"} =>
       \A i \in DOMAIN changeSet :
          (changeSet[i].oldFileName = DevNull /\ fileSt[i] # "none") =>
             /\ \A k \in Issued("getContent") : calls[k].file # i
             /\ (Quiescent /\ newBranchName \in DOMAIN remote) =>
                   /\ Slice2(changeSet[i].newFileName) \in DOMAIN remote[newBranchName]
                   /\ \A h \in DOMAIN changeSet[i].hunks :
                         remote[newBranchName][Slice2(changeSet[i].newFileName)]
                            = NewLinesOf(changeSet[i].hunks[h])

\* The content a getContent call of the run was answered with (the tree of a
\* commit never changes).
FetchedContent(j) == TreeAt(calls[j].ref)[calls[j].path]

Fetches == {j \in Issued("getContent") : calls[j].status = "ok" /\ calls[j].ref = HeadCommit}

\* Every hunk's context and removed lines are the lines at the place its header
\* names.
LiteralMatch(content, filePatch) ==
    \A h \in DOMAIN filePatch.hunks :
       hunkFits(content, filePatch.hunks[h], filePatch.hunks[h].oldStart - 1)

\* No place at all fits one of the hunks.
Unplaceable(content, filePatch) ==
    LET places == FindPlaces(content, filePatch.hunks, 0, 0)
    IN places # <<>> /\ places[Len(places)] = NoFit

MalformedDiff(lines) ==
    \E i \in DOMAIN lines :
       \/ lines[i].tag = "junk"
       \/ lines[i].tag = "+++" /\ (i = Len(lines) \/ lines[i + 1].tag # "@@")

\* C20: with a diff that does not parse, no branch is asked for, no file is
\* written and no pull request is created.
C20_ParseFailureBeforeMutation ==
    (variant \in {"evolution1", "evolution2"} /\ handler # "idle"
       /\ (~msg.hasUnifiedDiff \/ MalformedDiff(msg.unifiedDiff))) =>
       \A op \in {"createRef", "createOrUpdateFileContents", "createPull"} :
          Issued(op) = {}

\* C21: within a run getRef, createRef and pulls.create are each called at most
\* once, and getContent and the write at most once per entry of the change set,
\* whatever has failed.
C21_NoRetries ==
    variant = "subscriptions" =>
       /\ \A op \in {"getRef", "createRef", "createPull"} : Cardinality(Issued(op)) <= 1
       /\ \A op \in {"getContent", "createOrUpdateFileContents"} :
             \A i \in DOMAIN fileSt :
                Cardinality({k \in Issued(op) : calls[k].file = i}) <= 1

\* A run is over in which a fetch and a write have failed.
C21_Witness ==
    /\ variant = "subscriptions"
    /\ Quiescent
    /\ Failed("getContent") # {}
    /\ Failed("createOrUpdateFileContents") # {}

\* C22: every branch creation, write and pull request of a run names that run's
\* own branch and issue, the two runs' branches differ, and a run's branch
\* holds nothing written by the other run.
C22_RunsShareNothing ==
    /\ \A k \in DOMAIN pair.log :
          LET c == pair.log[k]
          IN /\ c.branch = pair.run[c.run].branch
             /\ c.branch[2] = pair.run[c.run].issue
             /\ c.issue = pair.run[c.run].issue
    /\ \A r, q \in DOMAIN pair.run :
          (r # q /\ pair.run[r].branch # NoBranch) =>
             /\ pair.run[r].branch # pair.run[q].branch
             /\ pair.run[r].branch \in DOMAIN pair.remote =>
                   pair.remote[pair.run[r].branch][PairPath] # PairContent(q)

\* Both runs are through, and a call of the second came between two of the first.
C22_Witness ==
    /\ \A r \in DOMAIN pair.run : pair.run[r].pc = "done"
    /\ \E i, j, k \in DOMAIN pair.log :
          /\ i < j /\ j < k
          /\ pair.log[i].run = 1 /\ pair.log[j].run = 2 /\ pair.log[k].run = 1
          /\ pair.log[k].op = "write"

\* C23: the diff of an original and a target, parsed and applied to the
\* original, gives the target.
C23_RoundTrip ==
    trip.stage = "applied" =>
       /\ trip.sections = 1
       /\ trip.update.ok
       /\ trip.update.content = trip.target

\* The line c of a, b, c has been changed (here: the last of three lines).
C23_Witness ==
    /\ trip.stage = "applied"
    /\ trip.original = <<"a", "b", "a">>
    /\ trip.target = <<"a", "b", "b">>
    /\ trip.update.content = <<"a", "b", "b">>

\* C24: every comment is posted on the issue the message came from (owner, repo
\* and issue number are those of the message) by an Octokit made for the
\* installation the message names.
C24_CommentOnOriginatingIssue ==
    \A k \in Issued("createComment") :
       /\ calls[k].owner = msg.taskInfo.repo_owner
       /\ calls[k].repo = msg.taskInfo.repo_name
       /\ calls[k].issue_number = msg.taskInfo.issue_number
       /\ calls[k].installation_id = msg.taskInfo.installation_id

\* C26: a build result whose comment has been answered, well or badly, has been
\* acknowledged exactly once.
C26_BuildResultAckedOnce ==
    (variant \in {"buildResult", "buildResult2", "handleMessage0"}
       /\ handler = "returned" /\ Pending("createComment", 0) = {}) =>
       acks = 1

\* The pull request k names the branch this run created as its head and the base
\* branch as its base, and its title carries the issue number.
PullNamesBranches(k) ==
    /\ calls[k].head = newBranchName
    /\ \E j \in Issued("createRef") :
          j < k /\ calls[j].status = "ok" /\ calls[j].branch = calls[k].head
    /\ calls[k].base = baseBranchName
    /\ calls[k].title = [issue |-> msg.taskInfo.issue_number, issue_title |-> <<>>]

\* C25: a pull request has the branch created in this run as its head, the base
\* branch as its base, and a title and a body made from the issue number and the
\* issue title of the task.
C25_PullRequestFields ==
    variant \in {"subscriptions", "evolution2"} =>
       \A k \in Issued("createPull") :
          /\ PullNamesBranches(k)
          /\ calls[k].prBody = [issue |-> msg.taskInfo.issue_number,
                                issue_title |-> msg.taskInfo.issue_title]

\* The same for the current handler alone.
C25_CurrentHandler ==
    variant = "subscriptions" =>
       \A k \in Issued("createPull") :
          /\ PullNamesBranches(k)
          /\ calls[k].prBody = [issue |-> msg.taskInfo.issue_number,
                                issue_title |-> msg.taskInfo.issue_title]

\* The title says "docker file" in some mix of capitals and small letters.
MentionsDockerFile(title) ==
    \E i \in 1..(Len(title) - 2) :
       /\ title[i] \in {"docker", "Docker"}
       /\ title[i + 1] = " "
       /\ title[i + 2] \in {"file", "File"}

\* C27: an opened issue is published exactly once, to the build topic if its
\* title says "docker file" in any capitalisation and to the patch topic if not,
\* and once the handler has returned exactly one note has been posted on the issue.
C27_OneTopicOneNote ==
    (variant = "issueOpened" /\ handler # "idle") =>
       /\ Cardinality(Issued("publish")) = 1
       /\ \A k \in Issued("publish") :
             calls[k].topic = IF MentionsDockerFile(msg.taskInfo.issue_title)
                              THEN "bobTheBuilderTopic" ELSE "patchGenerationTaskTopic"
       /\ Cardinality(Issued("createComment")) <= 1
       /\ handler = "returned" =>
             /\ Cardinality(Issued("createComment")) = 1
             /\ \A k \in Issued("createComment") :
                   /\ calls[k].owner = msg.taskInfo.repo_owner
                   /\ calls[k].repo = msg.taskInfo.repo_name
                   /\ calls[k].issue_number = msg.taskInfo.issue_number

\* An issue titled "Docker file" has gone to the build topic and has its note.
C27_Witness ==
    /\ variant = "issueOpened"
    /\ msg.taskInfo.issue_title = <<"Docker", " ", "file">>
    /\ handler = "returned"
    /\ \E k \in Issued("publish") : calls[k].topic = "bobTheBuilderTopic"
    /\ \E k \in Issued("createComment") : calls[k].status = "ok"

\* C28: the note is posted only after the publish has been answered, and it is
\* posted once the publish has been answered, whether it was published or not.
C28_NoteAfterPublishEitherWay ==
    variant = "issueOpened" =>
       /\ \A k \in Issued("createComment") :
             \E j \in Issued("publish") : j < k /\ calls[j].status \in {"ok", "failed"}
       /\ \A j \in Issued("publish") :
             calls[j].status \in {"ok", "failed"} => Issued("createComment") # {}

\* The publish failed, and the note has been posted all the same.
C28_Witness ==
    /\ variant = "issueOpened"
    /\ \E j \in Issued("publish") : calls[j].status = "failed"
    /\ \E k \in Issued("createComment") : calls[k].status = "ok"

\* C29: every getContent of a run names the commit getRef resolved, the one the
\* new branch was cut from, and the sha a write presents is the sha of the blob
\* in that commit, whatever has been pushed to the base branch since.
C29_ReadsFromOneSnapshot ==
    variant \in {"subscriptions", "evolution2"} =>
       /\ \A k \in Issued("getContent") :
             /\ calls[k].ref = HeadCommit
             /\ \E j \in Issued("getRef") : j < k /\ calls[j].status = "ok"
             /\ \A j \in Issued("createRef") : calls[j].sha = calls[k].ref
       /\ \A k \in Writes :
             calls[k].path \in DOMAIN remote[HeadCommit] =>
                calls[k].sha = BlobSha(remote[HeadCommit][calls[k].path])

\* main.py was read after the base branch had moved, and the write went through
\* with the sha of the commit's blob.
C29_Witness ==
    /\ variant \in {"subscriptions", "evolution2"}
    /\ MainMoved
    /\ \E k \in Issued("getContent"), w \in Writes :
          /\ k < w
          /\ calls[k].path = "main.py" /\ calls[w].path = "main.py"
          /\ calls[k].status = "ok" /\ calls[w].status = "ok"
          /\ calls[w].sha # BlobSha(remote[baseBranchName]["main.py"])

\* Two writes of the run that go to the same path.
SamePathWrites ==
    {w \in Writes \X Writes :
        /\ w[1] # w[2]
        /\ calls[w[1]].file # calls[w[2]].file
        /\ calls[w[1]].path = calls[w[2]].path}

\* C30 as stated: two writes to the same path present the same sha, they do not
\* both succeed, and the run creates no pull request.
C30_SamePathNeverBothWritten ==
    variant \in {"subscriptions", "evolution2"} =>
       \A w \in SamePathWrites :
          /\ calls[w[1]].sha = calls[w[2]].sha
          /\ ~(calls[w[1]].status = "ok" /\ calls[w[2]].status = "ok")
          /\ Issued("createPull") = {}

\* C30: two writes to the same path present the same sha; both succeed only if
\* one of them writes the content the commit already has at that path (the blob,
\* and so its sha, stays the same); and when one of them has failed there is no
\* pull request.
C30_SamePathBothWrittenOnlyUnchanged ==
    variant \in {"subscriptions", "evolution2"} =>
       \A w \in SamePathWrites :
          /\ calls[w[1]].sha = calls[w[2]].sha
          /\ (calls[w[1]].status = "ok" /\ calls[w[2]].status = "ok") =>
                /\ calls[w[1]].path \in DOMAIN remote[HeadCommit]
                /\ \E k \in {w[1], w[2]} :
                      FromBase64(calls[k].content) = remote[HeadCommit][calls[k].path]
          /\ (calls[w[1]].status = "failed" \/ calls[w[2]].status = "failed") =>
                Issued("createPull") = {}

\* Two writes to the same path, both changing the file: one went through, the
\* other was turned down, and the run has come to rest without a pull request.
C30_Witness ==
    /\ variant \in {"subscriptions", "evolution2"}
    /\ Quiescent
    /\ Issued("createPull") = {}
    /\ \E w \in SamePathWrites :
          /\ calls[w[1]].status = "ok" /\ calls[w[2]].status = "failed"
          /\ \A k \in {w[1], w[2]} :
                FromBase64(calls[k].content) # remote[HeadCommit][calls[k].path]

\* The path entry i of the change set names as its source.
SourcePath(i) ==
    IF variant = "subscriptions" THEN changeSet[i].sourceFilePath
    ELSE Slice2(changeSet[i].oldFileName)

\* Entry i names a target that is not its source.
Renames(i) ==
    IF variant = "subscriptions"
    THEN changeSet[i].targetFilePath # changeSet[i].sourceFilePath
    ELSE Slice2(changeSet[i].newFileName) # Slice2(changeSet[i].oldFileName)

\* C31: every write goes to the source path of its entry, the path whose content
\* and sha a fetch of the same entry has read before, and the new branch holds
\* exactly the paths of the commit it was cut from: none added, none deleted.
C31_WritesTheFetchedPath ==
    variant \in {"subscriptions", "evolution2"} =>
       /\ \A w \in Writes :
             /\ calls[w].path = SourcePath(calls[w].file)
             /\ \E k \in Issued("getContent") :
                   /\ k < w /\ calls[k].status = "ok"
                   /\ calls[k].file = calls[w].file
                   /\ calls[k].path = calls[w].path
       /\ newBranchName \in DOMAIN remote =>
             DOMAIN remote[newBranchName] = DOMAIN remote[HeadCommit]

\* An entry that renames main.py to moved.py has been written, to main.py.
C31_Witness ==
    /\ variant \in {"subscriptions", "evolution2"}
    /\ \E w \in Writes :
          /\ Renames(calls[w].file)
          /\ calls[w].status = "ok"
          /\ calls[w].path = "main.py"
          /\ "moved.py" \notin DOMAIN remote[newBranchName]
          /\ remote[newBranchName]["main.py"] = FromBase64(calls[w].content)

\* The same with the diff-based handler.
C31_WitnessDiff ==
    C31_Witness /\ variant = "evolution2"

====
